---- MODULE Spec2Model ----
(***************************************************************************)
(* The command-line client of copilot_directline (src/cli/main.py) driving *)
(* one Direct Line conversation: send a message, then poll the             *)
(* conversation's activities with a watermark until the bot has answered.  *)
(*                                                                         *)
(* The backend is the environment.  It keeps the conversation as a log of  *)
(* activities (server order), new activities arrive at any time, and a     *)
(* GET of the activities may fail, may omit the watermark, and may return  *)
(* activities it has returned before, or one activity twice.               *)
(***************************************************************************)
EXTENDS Integers, Sequences, FiniteSets, TLC

\* ------------------------------------------------------------- bounds
\* Bot-side activities that arrive in the conversation during one run.
MaxArrivals == 1
\* Consecutive activities of the conversation in one response batch.
MaxBatch == 2
\* User messages entered in one interactive session.
MaxTurns == 1

\* ----------------------------------------------------- program constants
\* max_polls of both poll loops.
max_polls == 10

\* ActivitiesResponse.watermark is Optional[str]: None is the absent watermark,
\* a present watermark is the backend's sequence number (the number of
\* activities in the conversation when the response was built).
None == -1

\* str / list truthiness as Python decides it; NoneStr is None where a str or
\* None is held (Activity.text, Conversation.stream_url, user_token).
NoneStr == "<None>"
NoText == NoneStr
TextTruthy(t) == t # NoneStr /\ t # ""
strip(t) == IF t = " " THEN "" ELSE t
AttTruthy(atts) == Len(atts) > 0

\* DirectLineClient.user_id: never empty ("dl_" + uuid when not given).
user_id == "dl_self"

\* --------------------------------------------------------------- state
VARIABLES
    pc,                 \* where main is
    opts,               \* the command line: message, conversation_id, no_auth, debug
    user_token,         \* main's user_token
    conversation,       \* main's conversation
    watermark,          \* main's watermark
    seen_activity_ids,  \* main's seen_activity_ids
    found_responses,    \* main's found_responses
    poll_count,         \* the loop variable of the poll loop being run
    turns,              \* user messages entered so far in interactive mode
    log,                \* backend: the conversation's activities, in server order
    probe,              \* backend: the activity stored under the id "p"
    surfaced,           \* console: times each activity was printed as a bot response
    turn_out,           \* console: the activities printed by the current poll loop
    last_send,          \* how main's latest send_message call ended
    polls_issued,       \* get_activities calls made by the current poll loop
    last_poll,          \* outcome of the current loop's latest poll
    scen,               \* ScenStep of the current loop's polls
    poll_history,       \* wire: the current loop's polls so far: none, all failed, all ok, mixed
    poll_error,         \* console: the current loop echoed a poll error
    sent_watermark,     \* wire: the watermark the loop's latest poll was issued with
    resp_watermark,     \* wire: the watermark of the latest poll's response
    slept,              \* whether time.sleep(poll_interval) preceded the loop's latest poll
    resp_batch,         \* wire: the activities of the latest poll's response
    lib_request,        \* the HTTP request issued by the latest DirectLineClient call
    lib_result,         \* how the latest DirectLineClient call ended
    auth,               \* the EntraIDAuth object: client_secret, scopes, _confidential_app
    auth_call,          \* the latest EntraIDAuth call: its argument, what MSAL answered
    msal_calls,         \* the MSAL calls the latest EntraIDAuth call made, in order
    auth_result,        \* how the latest EntraIDAuth call ended
    client,             \* the DirectLineClient object: secret, endpoint, user_id, base_url
    sessions,           \* per conversation driven through client: its caller's watermark, seen_activity_ids
    parsed,             \* the latest Conversation.from_dict call: its argument and its result
    page                \* the web example's page: its script's variables, pending work, display

vars == <<pc, opts, user_token, conversation, watermark, seen_activity_ids,
          found_responses, poll_count, turns, log, probe, surfaced, turn_out,
          last_send, polls_issued, last_poll, scen, poll_history, poll_error,
          sent_watermark, resp_watermark, slept, resp_batch, lib_request, lib_result,
          auth, auth_call, msal_calls, auth_result, client, sessions, parsed, page>>

client_vars == <<watermark, seen_activity_ids, found_responses, poll_count>>
loop_obs    == <<turn_out, polls_issued, last_poll, scen>>
setup_vars  == <<opts, user_token, conversation, probe>>
send_obs    == <<last_send>>
\* What is recorded only by the specifications that watch the wire (SpecLoop)
\* or call the client directly (SpecClient).
wire_obs    == <<poll_history, poll_error, sent_watermark, resp_watermark, slept,
                 resp_batch>>
lib_obs     == <<lib_request, lib_result>>
\* The DirectLineClient object and the callers' state of the conversations
\* driven through it (SpecClient).
dl_obs      == <<client, sessions>>
\* The EntraIDAuth object and what is recorded of the calls made on it (SpecAuth).
auth_obs    == <<auth, auth_call, msal_calls, auth_result>>
\* The page of the web example (SpecWeb).
web_obs     == <<page>>
main_vars   == <<pc, opts, user_token, conversation, watermark, seen_activity_ids,
                 found_responses, poll_count, turns, log, probe, surfaced, turn_out,
                 last_send, polls_issued, last_poll, scen>>

\* ------------------------------------------------------------ activities
\* Activity.from_dict: id, type, from (id, role; "" when the key is absent),
\* text, attachments (the contentType of each).
MkActivity(i, ty, fid, role, text, atts) ==
    [id |-> i, type |-> ty, from_id |-> fid, from_role |-> role,
     text |-> text, attachments |-> atts]

\* The bot-side activities that arrive in a session: a1 is the bot's text
\* message "Hello!", a2 an empty bot message with no attachments.
BotIds == {"a1", "a2"}
\* The activity the backend stores for the user's k-th posted message.
UserPostId(k) == IF k = 1 THEN "u1" ELSE IF k = 2 THEN "u2" ELSE "u3"
UserIds == {"u1", "u2", "u3"}
\* "p" is the id of the probe activity.
ActIds == BotIds \cup UserIds \cup {"p"}

\* Every shape of activity the loops tell apart: the types; from.id absent, the
\* client's own, or another; from.role absent, "bot" or "user"; text None,
\* empty, whitespace or words; attachments none, a card, or a sign-in card.
ProbeActivities ==
    [id : {"p"}, type : {"message", "event", "invoke", "typing"},
     from_id : {"", user_id, "bot1"}, from_role : {"", "bot", "user"},
     text : {NoText, "", " ", "Hello!"},
     attachments : {<<>>, <<"adaptive">>, <<"signin">>}]

ActivityOf(i) ==
    CASE i = "p"  -> probe
      [] i = "a1" -> MkActivity(i, "message", "bot1", "bot", "Hello!", <<>>)
      [] i = "a2" -> MkActivity(i, "message", "bot1", "bot", "", <<>>)
      [] OTHER    -> MkActivity(i, "message", user_id, "user", "hi", <<>>)

\* ------------------------------------------------------- classification
\* AlreadySeen without the membership test: nothing counts as seen.
AlreadySeen_Never(i, seen) == FALSE

\* `if activity.id in seen_activity_ids: continue` (main.py 287-288).
AlreadySeen(i, seen) == i \in seen

\* is_from_bot without the comparison with client.user_id.
is_from_bot_AnyId(a) ==
    \/ a.from_role = "bot"
    \/ a.from_id # ""
    \/ a.from_id = ""

\* is_from_bot without its last clause: an absent from.id is not from the bot.
is_from_bot_NoAbsentId(a) ==
    \/ a.from_role = "bot"
    \/ (a.from_id # "" /\ a.from_id # user_id)

\* main.py 292-298 (interactive await loop).
is_from_bot(a) ==
    \/ a.from_role = "bot"
    \/ (a.from_id # "" /\ a.from_id # user_id)
    \/ a.from_id = ""

\* main.py 161-176 (single-message loop).
is_bot_message(a) ==
    /\ a.type = "message"
    /\ \/ a.from_role = "bot"
       \/ (a.from_id # "" /\ a.from_id # user_id)
       \/ (a.from_id = "" /\ TextTruthy(a.text))

\* "signin" in content_type.lower() or "oauth" in content_type.lower()
IsSignIn(ct) == ct \in {"signin", "oauth"}
HasSignIn(atts) == \E k \in 1..Len(atts) : IsSignIn(atts[k])

\* One "[Sign-in card detected]" line per sign-in / OAuth attachment, in debug
\* mode only (main.py 360-370).
SignInLines(atts, dbg) ==
    IF dbg THEN [k \in 1..Len(SelectSeq(atts, IsSignIn)) |-> "signin"] ELSE <<>>

\* EmptyText as `activity.text is None`.
EmptyText_OnlyNone(t) == t = NoText

\* EmptyText without the strip() test.
EmptyText_NoStrip(t) == ~TextTruthy(t)

\* `if not activity.text or not activity.text.strip()` (main.py 313).
EmptyText(t) == ~TextTruthy(t) \/ ~TextTruthy(strip(t))

\* What the interactive loop body does with one unseen activity
\* (main.py 290-373): the bot-response lines it prints and whether it sets
\* found_responses / new_activities_found (the two are always set together).
HandleActivity(a, dbg) ==
    LET bot == is_from_bot(a) IN
    IF a.type = "message" /\ bot
    THEN IF EmptyText(a.text)
         THEN \* empty message: the attachments notice, then `continue`
              [lines |-> IF AttTruthy(a.attachments) THEN <<"attachments">> ELSE <<>>,
               found |-> AttTruthy(a.attachments)]
         ELSE [lines |-> <<"text">> \o SignInLines(a.attachments, dbg),
               found |-> TRUE]
    ELSE LET first == IF a.type \in {"invoke", "event"} /\ bot /\ TextTruthy(a.text)
                      THEN <<"text">> ELSE <<>>
             card  == AttTruthy(a.attachments) /\ bot /\ HasSignIn(a.attachments)
         IN [lines |-> first \o (IF card THEN SignInLines(a.attachments, dbg) ELSE <<>>),
             found |-> (first # <<>>) \/ card]

\* SeenAfter that marks only what set found_responses.
SeenAfter_OnlySurfaced(seen, a, h) == IF h.found THEN seen \cup {a.id} ELSE seen

\* `seen_activity_ids.add(activity.id)` (main.py 335 and 373): every activity
\* the loop body handles is marked, whatever HandleActivity (h) did with it.
SeenAfter(seen, a, h) == seen \cup {a.id}

\* The for-loop over one batch in the interactive await loop (main.py 283-373).
\* st: seen (seen_activity_ids), found (found_responses), new
\* (new_activities_found), printed (the ids of the activities printed as a bot
\* response, in order).
RECURSIVE ProcessBatch(_, _, _)
ProcessBatch(batch, st, dbg) ==
    IF batch = <<>> THEN st
    ELSE LET a == ActivityOf(Head(batch)) IN
         IF AlreadySeen(a.id, st.seen)
         THEN ProcessBatch(Tail(batch), st, dbg)
         ELSE LET h == HandleActivity(a, dbg) IN
              ProcessBatch(Tail(batch),
                           [seen    |-> SeenAfter(st.seen, a, h),
                            found   |-> st.found \/ h.found,
                            new     |-> st.new \/ h.found,
                            printed |-> IF h.lines # <<>>
                                        THEN Append(st.printed, a.id)
                                        ELSE st.printed],
                           dbg)

\* The for-loop over one batch in single-message mode (main.py 158-180): the
\* ids printed by print_message, in order; found_any is printed # <<>>.
RECURSIVE PrintBotMessages(_)
PrintBotMessages(batch) ==
    IF batch = <<>> THEN <<>>
    ELSE LET a == ActivityOf(Head(batch)) IN
         (IF is_bot_message(a) THEN <<a.id>> ELSE <<>>) \o PrintBotMessages(Tail(batch))

\* print_message (main.py 54-58): the text shown for an activity.
print_message(a) == IF TextTruthy(a.text) THEN a.text ELSE "[No text]"

\* NextWatermark without the truthiness guard: the response's watermark is
\* stored as it comes.
NextWatermark_Unguarded(stored, new_watermark) == new_watermark

\* `if activities_response.watermark: watermark = ...` (main.py 155-156, 244-245):
\* a present watermark is a non-empty str.
WatermarkTruthy(w) == w # None
NextWatermark(stored, new_watermark) ==
    IF WatermarkTruthy(new_watermark) THEN new_watermark ELSE stored

\* AwaitWatermark without its elif branch: the watermark advances only when the
\* batch brought something new.
AwaitWatermark_OnlyWhenNew(stored, new_watermark, new) ==
    IF WatermarkTruthy(new_watermark) /\ new THEN new_watermark ELSE stored

\* `if new_watermark and new_activities_found: watermark = new_watermark
\*  elif new_watermark: watermark = new_watermark` (main.py 376-380).
AwaitWatermark(stored, new_watermark, new) ==
    IF WatermarkTruthy(new_watermark) /\ new THEN new_watermark
    ELSE IF WatermarkTruthy(new_watermark) THEN new_watermark
    ELSE stored

\* AwaitBreak with the poll threshold one too low.
AwaitBreak_Early(found, new, count) == found /\ ~new /\ count > 1

\* `if found_responses and not new_activities_found and poll_count > 2: break`
\* (main.py 383-387).
AwaitBreak(found, new, count) == found /\ ~new /\ count > 2

\* `if found_any and poll_count > 2: break` (main.py 183-184).
SingleBreak(found_any, count) == found_any /\ count > 2

\* LoopEnds with the range one too long.
LoopEnds_OneMore(brk, count) == brk \/ count + 1 > max_polls

\* `for poll_count in range(max_polls)`: the loop is left by `break`, or when
\* the range is used up.
LoopEnds(brk, count) == brk \/ count + 1 >= max_polls

\* The except clause with a `break` in it.
PollErrorEndsLoop_Break(count) == TRUE

\* `except Exception` inside the loop body (main.py 186-189, 389-395): the
\* handler neither breaks nor raises, so the loop ends only with its range.
PollErrorEndsLoop(count) == LoopEnds(FALSE, count)

\* `if poll_count == max_polls - 1: click.echo(f"Error: {e}", err=True)`
\* (main.py 188-189, 392-395).
ReportsPollError(count) == count = max_polls - 1

\* AwaitSleeps without the `if poll_count > 0` guard.
AwaitSleeps_Always(count) == TRUE

\* `if poll_count > 0: time.sleep(poll_interval)` (main.py 267-268): whether the
\* await loop sleeps at the top of the iteration numbered count.
AwaitSleeps(count) == count > 0

\* `time.sleep(poll_interval)`, the first statement of the single-message
\* loop's body (main.py 146).
SingleSleeps(count) == TRUE

\* ------------------------------------------------------------ session
\* Conversation_from_dict with "" as the default of streamUrl.
Conversation_from_dict_EmptyStream(data) ==
    [conversation_id |-> IF "conversationId" \in DOMAIN data THEN data.conversationId ELSE "",
     token           |-> IF "token" \in DOMAIN data THEN data.token ELSE "",
     expires_in      |-> IF "expires_in" \in DOMAIN data THEN data.expires_in ELSE 0,
     stream_url      |-> IF "streamUrl" \in DOMAIN data THEN data.streamUrl ELSE ""]

\* Conversation.from_dict (models.py 16-24): data is the response's JSON object,
\* a record holding the keys the backend sent.
Conversation_from_dict(data) ==
    [conversation_id |-> IF "conversationId" \in DOMAIN data THEN data.conversationId ELSE "",
     token           |-> IF "token" \in DOMAIN data THEN data.token ELSE "",
     expires_in      |-> IF "expires_in" \in DOMAIN data THEN data.expires_in ELSE 0,
     stream_url      |-> IF "streamUrl" \in DOMAIN data THEN data.streamUrl ELSE NoneStr]

\* The JSON objects a backend sends for a conversation: each key present or
\* absent, streamUrl possibly null.
ConversationKeys == {"conversationId", "token", "expires_in", "streamUrl"}
ConversationObjects ==
    { [k \in present |-> full[k]] :
         present \in SUBSET ConversationKeys,
         full \in [conversationId : {"", "c1", "c2"}, token : {"", "t1"},
                   expires_in : {0, 1800, 3600}, streamUrl : {NoneStr, "", "wss://s"}] }

\* DirectLineClient.secret (directline.py 47-51): never empty.
secret == "dl_secret"
\* DirectLineClient.endpoint (directline.py 53-55).
endpoint == "https://directline.botframework.com"

\* DirectLineClient.__init__ (directline.py 47-64).
DirectLineClient ==
    [secret |-> secret, endpoint |-> endpoint, user_id |-> user_id,
     base_url |-> endpoint \o "/v3/directline"]

\* Responses of POST /conversations that pass raise_for_status.
StartResponses ==
    { [conversationId |-> "c1", token |-> "t1", expires_in |-> 3600, streamUrl |-> "wss://s"],
      [conversationId |-> "c1", token |-> "t1", expires_in |-> 3600],
      [token |-> "t1", expires_in |-> 3600],
      [conversationId |-> "c1", expires_in |-> 3600] }

\* main.py 116-121: an existing conversation continued by id.
ContinuedConversation ==
    [conversation_id |-> "c0", token |-> secret, expires_in |-> 0, stream_url |-> NoneStr]

\* send_message's parameters besides self (directline.py 162-164), and the
\* keyword both CLI call sites pass after three positional arguments
\* (main.py 133-138 and 230-235).  A call whose keyword names no parameter
\* raises TypeError before the function body runs.
send_message_params == {"conversation_id", "message", "token"}
cli_send_keywords == {"user_token"}
CliSendBinds == cli_send_keywords \subseteq send_message_params

\* -------------------------------------------------------------- backend
Range(q) == {q[k] : k \in DOMAIN q}

\* The batches a GET .../activities can return: up to MaxBatch consecutive
\* activities of the conversation in server order, from any point of it (so a
\* batch may overlap an earlier one, whatever watermark was sent), or one
\* activity twice.
SliceEnds(l, i) == i..(IF i + MaxBatch - 1 < Len(l) THEN i + MaxBatch - 1 ELSE Len(l))
Batches(l) ==
    {<<>>} \cup {<<l[i], l[i]>> : i \in 1..Len(l)} \cup
    UNION { {SubSeq(l, i, j) : j \in SliceEnds(l, i)} : i \in 1..Len(l) }

\* The watermark of a response: the conversation's sequence number, or absent.
Watermarks(l) == {None, Len(l)}

Arrivals(l) == Cardinality({k \in DOMAIN l : l[k] \in BotIds})

\* console: each printed activity counted, saturating at 2.
RECURSIVE Printed(_, _)
Printed(s, q) ==
    IF q = <<>> THEN s
    ELSE Printed([s EXCEPT ![Head(q)] = IF @ >= 1 THEN 2 ELSE 1], Tail(q))

\* The scenario SCEN of an await loop: polls 1 and 2 return nothing new, poll 3
\* returns the one new bot message "Hello!" (a1), poll 4 returns nothing new.
\* ScenStep is the number of polls matched so far, or -1 once the loop's polls
\* differ from SCEN.
ScenStep(n, ok, batch, seen) ==
    LET unseen == Range(batch) \ seen IN
    IF n \in {0, 1, 3} /\ ok /\ unseen = {} THEN n + 1
    ELSE IF n = 2 /\ ok /\ unseen = {"a1"} THEN 3
    ELSE -1

\* ------------------------------------------------ DirectLineClient
\* The statuses a backend answers with, and raise_for_status as requests
\* implements it: HTTPError for 400..599, nothing for any other status.
Statuses == {101, 200, 204, 304, 404, 500}
raise_for_status(status) == status >= 400 /\ status < 600

\* A response body that is no JSON document: response.json() raises.
NotJson == [not_json |-> TRUE]

\* A request: the method called and its token argument; of the request issued,
\* the conversation in the URL, the bearer token, the text posted and the
\* watermark parameter.
Request(op, token, cid, bearer, text, wm) ==
    [op |-> op, token |-> token, conversation_id |-> cid, auth |-> bearer,
     text |-> text, watermark |-> wm, from_id |-> ""]
NoRequest == Request("none", NoneStr, "", "", NoneStr, None)
NoValue   == [none |-> TRUE]
NoResult  == [kind |-> "none", status |-> 0, body |-> NotJson, value |-> NoValue]

\* _get_headers (directline.py 67-80): the bearer token of a request.
get_headers(token) == IF TextTruthy(token) THEN token ELSE client.secret

\* StartAuthorization without the override: the secret whatever user_token is
\* (tok is the user_token argument).
StartAuthorization_SecretOnly(tok) == get_headers(NoneStr)

\* `headers = self._get_headers(); if user_token: headers["Authorization"] =
\* f"Bearer {user_token}"` (directline.py 138-142).
StartAuthorization(tok) ==
    IF TextTruthy(tok) THEN tok ELSE get_headers(NoneStr)

\* Message(text=message).to_dict() (models.py 61-69): the text of the posted
\* activity; its type is "message" and it has no "from".
Message_to_dict(message) == [type |-> "message", text |-> message]

\* `data.get("from", {})` (models.py 44), then `.get("id", "")` (main.py 292):
\* the from.id of an activity given as a dict, "" when it has none.
FromIdOf(data) == IF "from" \in DOMAIN data THEN data["from"].id ELSE ""

\* The tail of every client method (e.g. directline.py 184-189):
\* response.raise_for_status(); data = response.json(); return parse(data).
Respond(status, body, value) ==
    IF raise_for_status(status)
    THEN [kind |-> "HTTPError", status |-> status, body |-> body, value |-> NoValue]
    ELSE IF body = NotJson
    THEN [kind |-> "JSONDecodeError", status |-> status, body |-> body, value |-> NoValue]
    ELSE [kind |-> "returned", status |-> status, body |-> body, value |-> value]

\* Arguments a caller passes.
ConversationIdArgs == {"", "c1", "c2"}
MessageArgs == {"", "hi"}
TokenArgs == {NoneStr, "", "t1"}
WatermarkArgs == {None, 1}

\* JSON bodies of a backend: a conversation object (with or without its
\* required fields), the object answering a post, an activity set.
SendResponses == {[id |-> "c1|0000001"], [error |-> "x"]}
ActivitySets == {[activities |-> <<>>, watermark |-> None],
                 [activities |-> <<"a1">>, watermark |-> 1]}

\* The conversations driven through one client, and the state their caller
\* keeps for each (main.py 196-198: watermark = None, seen_activity_ids = set()).
Convs == {"c1", "c2"}
NewSession == [watermark |-> None, seen |-> {}]

\* No method assigns an attribute of self: client is left as it is.
\* directline.py 82-119.
generate_token ==
    \E status \in Statuses, body \in StartResponses \cup {NotJson} :
       /\ lib_request' = Request("generate_token", NoneStr, "", get_headers(NoneStr),
                                 NoneStr, None)
       /\ lib_result' = Respond(status, body,
                                IF body = NotJson THEN NoValue ELSE Conversation_from_dict(body))
       /\ UNCHANGED <<main_vars, wire_obs, auth_obs, dl_obs, parsed, web_obs>>

\* directline.py 121-160.
start_conversation ==
    \E tok \in TokenArgs, status \in Statuses, body \in StartResponses \cup {NotJson} :
       /\ lib_request' = Request("start_conversation", tok, "", StartAuthorization(tok),
                                 NoneStr, None)
       /\ lib_result' = Respond(status, body,
                                IF body = NotJson THEN NoValue ELSE Conversation_from_dict(body))
       /\ UNCHANGED <<main_vars, wire_obs, auth_obs, dl_obs, parsed, web_obs>>

\* directline.py 162-189.
send_message ==
    \E cid \in ConversationIdArgs, message \in MessageArgs, token \in TokenArgs,
       status \in Statuses, body \in SendResponses \cup {NotJson} :
       /\ lib_request' = [Request("send_message", token, cid, get_headers(token),
                                  Message_to_dict(message).text, None)
                             EXCEPT !.from_id = FromIdOf(Message_to_dict(message))]
       /\ lib_result' = Respond(status, body, body)
       /\ UNCHANGED <<main_vars, wire_obs, auth_obs, dl_obs, parsed, web_obs>>

\* directline.py 191-224: the call get_activities(cid, watermark=wm, token=token)
\* answered with status and body.
get_activities_call(cid, wm, token, status, body) ==
    /\ lib_request' = Request("get_activities", token, cid, get_headers(token), NoneStr,
                              IF WatermarkTruthy(wm) THEN wm ELSE None)
    /\ lib_result' = Respond(status, body, body)
    /\ client' = client

get_activities ==
    \E cid \in ConversationIdArgs, wm \in WatermarkArgs, token \in TokenArgs,
       status \in Statuses, body \in ActivitySets \cup {NotJson} :
       /\ get_activities_call(cid, wm, token, status, body)
       /\ UNCHANGED <<main_vars, wire_obs, auth_obs, sessions, parsed, web_obs>>

\* directline.py 226-246.
refresh_token ==
    \E token \in TokenArgs, status \in Statuses, body \in StartResponses \cup {NotJson} :
       /\ lib_request' = Request("refresh_token", token, "", get_headers(token), NoneStr, None)
       /\ lib_result' = Respond(status, body,
                                IF body = NotJson THEN NoValue ELSE Conversation_from_dict(body))
       /\ UNCHANGED <<main_vars, wire_obs, auth_obs, dl_obs, parsed, web_obs>>

\* What one iteration of the await loop leaves in its caller's watermark and
\* seen_activity_ids (main.py 281-380), given how get_activities ended.
SessionAfterPoll(session, result) ==
    IF result.kind # "returned" THEN session
    ELSE LET st == ProcessBatch(result.value.activities,
                                [seen |-> session.seen, found |-> FALSE,
                                 new |-> FALSE, printed |-> <<>>],
                                FALSE)
         IN [watermark |-> AwaitWatermark(session.watermark, result.value.watermark, st.new),
             seen      |-> st.seen]

\* SessionsAfterPoll with one watermark and one seen set for all conversations.
SessionsAfterPoll_Shared(all, cid, session) == [c \in DOMAIN all |-> session]

\* watermark and seen_activity_ids are locals of the caller driving the
\* conversation (main.py 196-198): a poll of cid rebinds those of cid.
SessionsAfterPoll(all, cid, session) == [all EXCEPT ![cid] = session]

\* One iteration of an await loop driving conversation cid through the client
\* (main.py 275-380).
PollConversation ==
    \E cid \in Convs, token \in {"t1"}, status \in Statuses,
       body \in ActivitySets \cup {NotJson} :
       /\ get_activities_call(cid, sessions[cid].watermark, token, status, body)
       /\ sessions' = SessionsAfterPoll(sessions, cid,
                                        SessionAfterPoll(sessions[cid], lib_result'))
       /\ UNCHANGED <<main_vars, wire_obs, auth_obs, parsed, web_obs>>

\* ------------------------------------------------------ EntraIDAuth
\* A dict or None as MSAL returns it and as a caller passes an account: whether
\* it is None, and its keys.
NoneDict == [is_none |-> TRUE, keys |-> {}]
Dict(keys) == [is_none |-> FALSE, keys |-> keys]
DictTruthy(d) == ~d.is_none /\ d.keys # {}

\* What MSAL answers: a dict with any of these keys; acquire_token_silent also
\* answers None.
MsalKeys == {"access_token", "error", "error_description"}
MsalResults == {Dict(k) : k \in SUBSET MsalKeys}
SilentResults == MsalResults \cup {NoneDict}

\* The account argument: None, an empty dict, an account of the cache.
AccountArgs == {NoneDict, Dict({}), Dict({"username"})}

\* The constructor's arguments: client_secret (None, empty, set) and scopes
\* (None, or a list).
SecretArgs == {NoneStr, "", "s3cret"}
NoneScopes == <<NoneStr>>
ScopesArgs == {NoneScopes, <<>>, <<"api://bot/.default">>, <<"openid">>,
               <<"User.Read", "offline_access">>}
client_id == "app1"

\* `scopes or []`, `self.scopes if self.scopes else []` (auth.py 40, 77).
ScopesTruthy(scopes) == scopes # NoneScopes /\ Len(scopes) > 0
ScopesOrEmpty(scopes) == IF ScopesTruthy(scopes) THEN scopes ELSE <<>>

\* HasConfidentialApp without the test of client_secret.
HasConfidentialApp_Always(client_secret) == TRUE

\* `if client_secret: self._confidential_app = ...` (auth.py 51-57).
HasConfidentialApp(client_secret) == TextTruthy(client_secret)

\* EntraIDAuth.__init__ (auth.py 32-57).
EntraIDAuth(client_secret, scopes) ==
    [client_secret    |-> client_secret,
     scopes           |-> ScopesOrEmpty(scopes),
     confidential_app |-> HasConfidentialApp(client_secret)]

\* SilentSucceeded without the test for the access token.
SilentSucceeded_AnyResult(result) == ~result.is_none

\* `if result and "access_token" in result` (auth.py 84).
SilentSucceeded(result) == DictTruthy(result) /\ "access_token" \in result.keys

\* `if "error" in result` (auth.py 92, 120).
HasError(result) == "error" \in result.keys

\* `result.get("error_description", result.get("error"))` (auth.py 93, 121).
error_msg(result) ==
    IF "error_description" \in result.keys THEN "error_description" ELSE "error"

MsalCall(op, scopes) == [op |-> op, scopes |-> scopes]
NoAuthCall == [op |-> "none", account |-> NoneDict, silent |-> NoneDict, answer |-> NoneDict]
NoAuthResult == [kind |-> "none", value |-> NoneDict, msg |-> ""]
Returned(result) == [kind |-> "returned", value |-> result, msg |-> ""]
Raised(kind, msg) == [kind |-> kind, value |-> NoneDict, msg |-> msg]

\* auth.py 61-98.  account: the argument; silent, answer: what MSAL's
\* acquire_token_silent and acquire_token_interactive answer when called.
acquire_token_interactive ==
    \E account \in AccountArgs, silent \in SilentResults, answer \in MsalResults :
       LET interactive_scopes == ScopesOrEmpty(auth.scopes)
           tried  == DictTruthy(account)
           first  == IF tried
                     THEN <<MsalCall("acquire_token_silent", interactive_scopes)>>
                     ELSE <<>>
       IN /\ auth_call' = [op |-> "acquire_token_interactive", account |-> account,
                           silent |-> silent, answer |-> answer]
          /\ IF tried /\ SilentSucceeded(silent)
             THEN /\ msal_calls' = first
                  /\ auth_result' = Returned(silent)
             ELSE /\ msal_calls' =
                        Append(first, MsalCall("acquire_token_interactive", interactive_scopes))
                  /\ auth_result' = IF HasError(answer)
                                    THEN Raised("Exception", error_msg(answer))
                                    ELSE Returned(answer)
          /\ UNCHANGED <<auth, main_vars, wire_obs, lib_obs, dl_obs, parsed, web_obs>>

\* auth.py 100-126.
acquire_token_for_client ==
    \E answer \in MsalResults :
       LET client_scopes == IF ScopesTruthy(auth.scopes) THEN auth.scopes
                            ELSE <<client_id \o "/.default">>
       IN /\ auth_call' = [op |-> "acquire_token_for_client", account |-> NoneDict,
                           silent |-> NoneDict, answer |-> answer]
          /\ IF ~auth.confidential_app
             THEN /\ msal_calls' = <<>>
                  /\ auth_result' = Raised("ValueError", "Client secret required")
             ELSE /\ msal_calls' = <<MsalCall("acquire_token_for_client", client_scopes)>>
                  /\ auth_result' = IF HasError(answer)
                                    THEN Raised("Exception", error_msg(answer))
                                    ELSE Returned(answer)
          /\ UNCHANGED <<auth, main_vars, wire_obs, lib_obs, dl_obs, parsed, web_obs>>

\* No EntraIDAuth call made yet on an object built without secret or scopes.
NoAuthObject ==
    /\ auth = EntraIDAuth(NoneStr, NoneScopes)
    /\ auth_call = NoAuthCall
    /\ msal_calls = <<>>
    /\ auth_result = NoAuthResult

\* ------------------------------------------------- web example: the page
\* The script of docs/examples/web_app.py as loaded: `let conversationId = null;
\* let watermark = null;` (153-154), input and button disabled (149-150), no
\* message displayed.  at: where init() is; timer: the setTimeout of
\* sendMessage is pending; sends: messages sent so far; polls: the
\* pollMessages invocations, in the order they were started; shown: how often
\* pollMessages displayed each activity (saturating at 2).
NoPage ==
    [at |-> "load", conversationId |-> NoneStr, watermark |-> None, enabled |-> FALSE,
     timer |-> FALSE, sends |-> 0, polls |-> <<>>, shown |-> [i \in ActIds |-> 0]]

\* pollMessages up to its first await (web_app.py 220-224): nothing without a
\* conversation; otherwise the GET is issued with `watermark || ''` as the
\* script holds it now.  stage: "fetch" until the server has answered,
\* "answered" until the script resumes, then "done".
pollMessages(p) ==
    IF p.conversationId = NoneStr THEN p
    ELSE [p EXCEPT !.polls = Append(@, [stage |-> "fetch", sent |-> p.watermark,
                                        success |-> FALSE, activities |-> <<>>,
                                        watermark |-> None])]

\* The activities the Direct Line service returns for a watermark: those after
\* it, all of them when there is none (`if watermark: params["watermark"]`,
\* directline.py 209-211; an empty parameter counts as none).
ActivitiesAfter(l, wm) == SubSeq(l, (IF wm = None THEN 0 ELSE wm) + 1, Len(l))

\* `if (activity.type === 'message' && activity.text)` (web_app.py 230-232).
IsWebMessage(i) == ActivityOf(i).type = "message" /\ TextTruthy(ActivityOf(i).text)

\* The rest of pollMessages, run when the response is there (web_app.py
\* 225-237): with `data.success && data.activities` (an array, even an empty
\* one, is truthy) every message with text is displayed and
\* `watermark = data.watermark`; otherwise nothing.  r is the invocation.
pollMessagesResume(p, r) ==
    IF r.success
    THEN [p EXCEPT !.shown = Printed(@, SelectSeq(r.activities, IsWebMessage)),
                   !.watermark = r.watermark]
    ELSE p

\* ---------------------------------------------------------- models
\* Conversation.from_dict(data) called on any conversation object
\* (models.py 16-24).
from_dict ==
    \E data \in ConversationObjects :
       /\ parsed' = [data |-> data, conversation |-> Conversation_from_dict(data)]
       /\ UNCHANGED <<main_vars, wire_obs, lib_obs, auth_obs, dl_obs, web_obs>>

\* ----------------------------------------------------------------- Init
Options == [message : BOOLEAN, conversation_id : BOOLEAN, no_auth : BOOLEAN, debug : BOOLEAN]

NoConversation == [conversation_id |-> "", token |-> "", expires_in |-> 0, stream_url |-> NoneStr]
StartedConversation ==
    Conversation_from_dict([conversationId |-> "c1", token |-> "t1", expires_in |-> 3600])

\* The activity under "p" when no probe is in the conversation.
NoProbe == MkActivity("p", "typing", "", "", NoText, <<>>)

\* Nothing watched on the wire yet; no client method called on its own yet.
NoWire ==
    /\ poll_history = "none"
    /\ poll_error = FALSE
    /\ sent_watermark = None
    /\ resp_watermark = None
    /\ slept = FALSE
    /\ resp_batch = <<>>
NoLibCall ==
    /\ lib_request = NoRequest
    /\ lib_result = NoResult
    /\ client = DirectLineClient
    /\ sessions = [c \in Convs |-> NewSession]
    /\ parsed = [data |-> <<>>, conversation |-> NoConversation]
    /\ page = NoPage

\* main at `at`, run with the command line o, before any send or poll.
InitWith(o, at, conv) ==
    /\ pc = at
    /\ opts = o
    /\ user_token = NoneStr
    /\ conversation = conv
    /\ watermark = None
    /\ seen_activity_ids = {}
    /\ found_responses = FALSE
    /\ poll_count = 0
    /\ turns = 0
    /\ log = <<>>
    /\ probe = NoProbe
    /\ surfaced = [i \in ActIds |-> 0]
    /\ turn_out = {}
    /\ last_send = "none"
    /\ polls_issued = 0
    /\ last_poll = "none"
    /\ scen = 0
    /\ NoWire
    /\ NoLibCall
    /\ NoAuthObject

Init == \E o \in Options : InitWith(o, "auth", NoConversation)

\* ------------------------------------------------------------ main: setup
\* main.py 99-113.  acquire: what EntraIDAuth.from_env / acquire_token_interactive
\* did -- returned a result with an access token, one without, or raised.
Authenticate ==
    /\ pc = "auth"
    /\ \E acquire \in {"token", "no_token", "raised"} :
         user_token' = IF ~opts.no_auth /\ acquire = "token" THEN "entra_tok" ELSE NoneStr
    /\ pc' = "start"
    /\ UNCHANGED <<opts, conversation, probe, client_vars, turns, log, surfaced,
                   loop_obs, send_obs, wire_obs, lib_obs, auth_obs, dl_obs, parsed, web_obs>>

\* main.py 115-128, and 404-407 when start_conversation raises.
StartConversation ==
    /\ pc = "start"
    /\ IF opts.conversation_id
       THEN /\ conversation' = ContinuedConversation
            /\ pc' = IF opts.message THEN "single_send" ELSE "seed"
       ELSE \E http_ok \in BOOLEAN, data \in StartResponses :
              IF http_ok
              THEN /\ conversation' = Conversation_from_dict(data)
                   /\ pc' = IF opts.message THEN "single_send" ELSE "seed"
              ELSE /\ conversation' = conversation
                   /\ pc' = "exit1"
    /\ UNCHANGED <<opts, user_token, probe, client_vars, turns, log, surfaced,
                   loop_obs, send_obs, wire_obs, lib_obs, auth_obs, dl_obs, parsed, web_obs>>

\* ------------------------------------------------- main: single message
\* main.py 131-143, and 404-407 when send_message raises.  binds: whether the
\* call's keyword is accepted; send_message's body (directline.py 175-189) then
\* issues the POST, and raise_for_status decides whether it returns ("returned",
\* the activity is in the conversation) or raises ("HTTPError").
SingleSend(binds) ==
    /\ pc = "single_send"
    /\ IF ~binds
       THEN /\ last_send' = "TypeError"
            /\ log' = log
            /\ pc' = "exit1"
       ELSE \E http_ok \in BOOLEAN :
              IF http_ok
              THEN /\ last_send' = "returned"
                   /\ log' = Append(log, UserPostId(1))
                   /\ pc' = "single_poll"
              ELSE /\ last_send' = "HTTPError"
                   /\ log' = log
                   /\ pc' = "exit1"
    /\ UNCHANGED <<setup_vars, client_vars, turns, surfaced, loop_obs, wire_obs, lib_obs, auth_obs, dl_obs, parsed, web_obs>>

\* main.py 145-191: one iteration of the single-message poll loop.  ok: whether
\* get_activities returned; batch, w: the activities and watermark it returned.
SinglePollStep(ok, batch, w) ==
    /\ pc = "single_poll"
    /\ polls_issued' = polls_issued + 1
    /\ IF ~ok
       THEN \* get_activities raised (main.py 186-189)
            /\ last_poll' = "fail"
            /\ pc' = IF PollErrorEndsLoop(poll_count) THEN "done" ELSE pc
            /\ poll_count' = IF PollErrorEndsLoop(poll_count) THEN poll_count ELSE poll_count + 1
            /\ UNCHANGED <<watermark, surfaced, turn_out>>
       ELSE LET printed   == PrintBotMessages(batch)
                found_any == printed # <<>>
                brk       == SingleBreak(found_any, poll_count)
            IN /\ watermark' = NextWatermark(watermark, w)
               /\ surfaced' = Printed(surfaced, printed)
               /\ turn_out' = turn_out \cup Range(printed)
               /\ last_poll' = IF found_any THEN "new" ELSE "quiet"
               /\ pc' = IF LoopEnds(brk, poll_count) THEN "done" ELSE pc
               /\ poll_count' = IF LoopEnds(brk, poll_count) THEN poll_count ELSE poll_count + 1
    /\ UNCHANGED <<setup_vars, seen_activity_ids, found_responses, turns, log,
                   send_obs, scen, lib_obs, auth_obs, dl_obs, parsed, web_obs>>

SinglePoll ==
    /\ \/ SinglePollStep(FALSE, <<>>, None)
       \/ \E batch \in Batches(log), w \in Watermarks(log) : SinglePollStep(TRUE, batch, w)
    /\ UNCHANGED wire_obs

\* --------------------------------------------------- main: interactive
\* main.py 196-211: the seed poll, issued with no watermark.
SeedPoll ==
    /\ pc = "seed"
    /\ \/ \* get_activities raised (main.py 210-211)
          UNCHANGED <<watermark, seen_activity_ids>>
       \/ \E batch \in Batches(log), w \in Watermarks(log) :
            /\ watermark' = w
            /\ seen_activity_ids' = seen_activity_ids \cup Range(batch)
    /\ pc' = "prompt"
    /\ UNCHANGED <<setup_vars, found_responses, poll_count, turns, log, surfaced,
                   loop_obs, send_obs, wire_obs, lib_obs, auth_obs, dl_obs, parsed, web_obs>>

\* main.py 213-226: the prompt.  input: "exit" (also EOF / Ctrl-C), a blank
\* line, or a message.
Prompt ==
    /\ pc = "prompt"
    /\ \E input \in {"exit", "", "hi"} :
         /\ input = "hi" => turns < MaxTurns
         /\ pc' = IF input = "exit" THEN "done" ELSE IF input = "" THEN pc ELSE "send"
         /\ turns' = IF input = "hi" THEN turns + 1 ELSE turns
    /\ UNCHANGED <<setup_vars, client_vars, log, surfaced, loop_obs, send_obs,
                   wire_obs, lib_obs, auth_obs, dl_obs, parsed, web_obs>>

\* AfterSendError without the `continue`: the turn goes on to its await loop.
AfterSendError_FallsThrough(error) == "await"

\* `except Exception as e: click.echo(...); continue` (main.py 251-253): where
\* main goes when send_message raised error.
AfterSendError(error) == "prompt"

\* main.py 228-235 and 251-253: the interactive send (binds as in SingleSend).
InteractiveSend(binds) ==
    /\ pc = "send"
    /\ IF ~binds
       THEN /\ last_send' = "TypeError"
            /\ log' = log
            /\ pc' = AfterSendError("TypeError")
       ELSE \E http_ok \in BOOLEAN :
              IF http_ok
              THEN /\ last_send' = "returned"
                   /\ log' = Append(log, UserPostId(turns))
                   /\ pc' = "sync"
              ELSE /\ last_send' = "HTTPError"
                   /\ log' = log
                   /\ pc' = AfterSendError("HTTPError")
    /\ UNCHANGED <<setup_vars, client_vars, turns, surfaced, loop_obs, wire_obs, lib_obs, auth_obs, dl_obs, parsed, web_obs>>

\* main.py 237-264: the poll issued right after the send, then the await loop's
\* initialisation.
SyncPoll ==
    /\ pc = "sync"
    /\ \/ \* get_activities raised (main.py 249-250)
          UNCHANGED <<watermark, seen_activity_ids>>
       \/ \E batch \in Batches(log), w \in Watermarks(log) :
            IF WatermarkTruthy(w)
            THEN /\ watermark' = w
                 /\ seen_activity_ids' = seen_activity_ids \cup Range(batch)
            ELSE UNCHANGED <<watermark, seen_activity_ids>>
    /\ found_responses' = FALSE
    /\ poll_count' = 0
    /\ turn_out' = {}
    /\ polls_issued' = 0
    /\ last_poll' = "none"
    /\ scen' = 0
    /\ pc' = "await"
    /\ UNCHANGED <<setup_vars, turns, log, surfaced, send_obs, wire_obs, lib_obs, auth_obs, dl_obs, parsed, web_obs>>

\* The handler with a reset in it: a failed poll forgets the responses found.
FoundAfterPollError_Reset(found) == FALSE

\* The await loop's `except Exception as e:` (main.py 389-395) logs, and echoes
\* on the last iteration; it assigns none of the loop's variables, so
\* found_responses is after a failed poll what it was before it.
FoundAfterPollError(found) == found

\* main.py 266-402: one iteration of the interactive await loop (ok, batch,
\* new_watermark as in SinglePollStep).
AwaitPollStep(ok, batch, new_watermark) ==
    /\ pc = "await"
    /\ polls_issued' = polls_issued + 1
    /\ IF ~ok
       THEN \* get_activities raised (main.py 389-395)
            /\ last_poll' = "fail"
            /\ scen' = ScenStep(scen, FALSE, <<>>, seen_activity_ids)
            /\ pc' = IF PollErrorEndsLoop(poll_count) THEN "prompt" ELSE pc
            /\ poll_count' = IF PollErrorEndsLoop(poll_count) THEN poll_count ELSE poll_count + 1
            /\ found_responses' = FoundAfterPollError(found_responses)
            /\ UNCHANGED <<watermark, seen_activity_ids, surfaced, turn_out>>
       ELSE LET st  == ProcessBatch(batch,
                                    [seen |-> seen_activity_ids, found |-> found_responses,
                                     new |-> FALSE, printed |-> <<>>],
                                    opts.debug)
                brk == AwaitBreak(st.found, st.new, poll_count)
            IN /\ seen_activity_ids' = st.seen
               /\ found_responses' = st.found
               /\ surfaced' = Printed(surfaced, st.printed)
               /\ turn_out' = turn_out \cup Range(st.printed)
               /\ watermark' = AwaitWatermark(watermark, new_watermark, st.new)
               /\ last_poll' = IF st.new THEN "new" ELSE "quiet"
               /\ scen' = ScenStep(scen, TRUE, batch, seen_activity_ids)
               /\ pc' = IF LoopEnds(brk, poll_count) THEN "prompt" ELSE pc
               /\ poll_count' = IF LoopEnds(brk, poll_count) THEN poll_count ELSE poll_count + 1
    /\ UNCHANGED <<setup_vars, turns, log, send_obs, lib_obs, auth_obs, dl_obs, parsed, web_obs>>

AwaitPoll ==
    /\ \/ AwaitPollStep(FALSE, <<>>, None)
       \/ \E batch \in Batches(log), new_watermark \in Watermarks(log) :
            AwaitPollStep(TRUE, batch, new_watermark)
    /\ UNCHANGED wire_obs

\* -------------------------------------------------------------- backend
\* A bot-side activity arrives in the conversation.
BackendAppends ==
    /\ pc \in {"single_send", "single_poll", "seed", "prompt", "send", "sync", "await", "web"}
    /\ Arrivals(log) < MaxArrivals
    /\ \E i \in BotIds \ Range(log) : log' = Append(log, i)
    /\ UNCHANGED <<pc, setup_vars, client_vars, turns, surfaced, loop_obs, send_obs,
                   wire_obs, lib_obs, auth_obs, dl_obs, parsed, web_obs>>

\* ------------------------------------------------------- specifications
\* main as written.
Next ==
    \/ Authenticate
    \/ StartConversation
    \/ SingleSend(CliSendBinds)
    \/ SeedPoll
    \/ Prompt
    \/ InteractiveSend(CliSendBinds)
    \/ BackendAppends

Spec == Init /\ [][Next]_vars

\* The polling protocol: a session of main from line 130 on (conversation
\* started), in which a send_message call may also bind (as the calls of the
\* examples do), so that the poll loops behind the send are entered.  Every
\* behaviour of main as written from that point on is a behaviour of SpecPoll.
\* The session's activities carry no attachments, so --debug changes nothing
\* the session prints as a response.
InitPoll ==
    \E m \in BOOLEAN :
       InitWith([message |-> m, conversation_id |-> FALSE, no_auth |-> FALSE, debug |-> FALSE],
                IF m THEN "single_send" ELSE "seed", StartedConversation)

NextPoll ==
    \/ SingleSend(CliSendBinds)
    \/ SingleSend(TRUE)
    \/ SinglePoll
    \/ SeedPoll
    \/ Prompt
    \/ InteractiveSend(CliSendBinds)
    \/ InteractiveSend(TRUE)
    \/ SyncPoll
    \/ AwaitPoll
    \/ BackendAppends

SpecPoll == InitPoll /\ [][NextPoll]_vars

\* One poll loop watched on the wire: the user's message u1 is posted and the
\* loop is about to issue its first poll.  In interactive mode the seed poll and
\* the poll behind the send have failed or returned, so the loop starts with no
\* watermark or with watermark 0 or 1, and with u1 seen or not.
LoopStarts ==
    {[watermark |-> None, seen |-> {}], [watermark |-> 0, seen |-> {}],
     [watermark |-> 1, seen |-> {}], [watermark |-> 1, seen |-> {"u1"}]}

InitLoop ==
    \E m \in BOOLEAN, st \in LoopStarts :
       /\ m => st.watermark = None
       /\ pc = IF m THEN "single_poll" ELSE "await"
       /\ opts = [message |-> m, conversation_id |-> FALSE, no_auth |-> FALSE, debug |-> FALSE]
       /\ user_token = NoneStr
       /\ conversation = StartedConversation
       /\ watermark = st.watermark
       /\ seen_activity_ids = st.seen
       /\ found_responses = FALSE
       /\ poll_count = 0
       /\ turns = IF m THEN 0 ELSE 1
       /\ log = <<"u1">>
       /\ probe = NoProbe
       /\ surfaced = [i \in ActIds |-> 0]
       /\ turn_out = {}
       /\ last_send = "returned"
       /\ polls_issued = 0
       /\ last_poll = "none"
       /\ scen = 0
       /\ NoWire
       /\ NoLibCall
       /\ NoAuthObject

\* What the wire and the console show of one poll: whether it failed, the
\* watermark parameter of the request (`watermark=watermark`, main.py 149-153
\* and 276-280), the watermark of the response, the error echoed for it, and
\* whether the iteration slept before issuing it.
Observe(ok, w) ==
    /\ poll_history' = IF ok
                       THEN (IF poll_history \in {"none", "ok"} THEN "ok" ELSE "mixed")
                       ELSE (IF poll_history \in {"none", "failed"} THEN "failed" ELSE "mixed")
    /\ poll_error' = (poll_error \/ (~ok /\ ReportsPollError(poll_count)))
    /\ sent_watermark' = watermark
    /\ resp_watermark' = IF ok THEN w ELSE None
    /\ slept' = IF pc = "single_poll" THEN SingleSleeps(poll_count) ELSE AwaitSleeps(poll_count)

\* `activities_response.activities` of the poll (main.py 158, 285).
ObserveBatch(batch) == resp_batch' = batch

WireSinglePoll ==
    \/ SinglePollStep(FALSE, <<>>, None) /\ Observe(FALSE, None) /\ ObserveBatch(<<>>)
    \/ \E batch \in Batches(log), w \in Watermarks(log) :
         SinglePollStep(TRUE, batch, w) /\ Observe(TRUE, w) /\ ObserveBatch(batch)

WireAwaitPoll ==
    \/ AwaitPollStep(FALSE, <<>>, None) /\ Observe(FALSE, None) /\ ObserveBatch(<<>>)
    \/ \E batch \in Batches(log), w \in Watermarks(log) :
         AwaitPollStep(TRUE, batch, w) /\ Observe(TRUE, w) /\ ObserveBatch(batch)

NextLoop ==
    \/ WireSinglePoll
    \/ WireAwaitPoll
    \/ BackendAppends

SpecLoop == InitLoop /\ [][NextLoop]_vars

\* --------------------------------------------------------- web example
\* init() (web_app.py 156-178): POST /api/conversation/start; on success the
\* conversation id is stored, the input is enabled and pollMessages is called.
init ==
    /\ pc = "web"
    /\ page.at = "load"
    /\ \E ok \in BOOLEAN :
         page' = IF ok
                 THEN pollMessages([page EXCEPT !.at = "ready", !.conversationId = "c1",
                                                !.enabled = TRUE])
                 ELSE [page EXCEPT !.at = "failed"]
    /\ UNCHANGED <<main_vars, wire_obs, lib_obs, auth_obs, dl_obs, parsed>>

\* sendMessage() (web_app.py 180-218): the input is disabled and the message
\* posted; on success a timer is set that will poll and re-enable the input,
\* on failure the input is re-enabled at once.
sendMessage ==
    /\ pc = "web"
    /\ page.enabled
    /\ page.conversationId # NoneStr
    /\ page.sends < MaxTurns
    /\ \E ok \in BOOLEAN :
         IF ok
         THEN /\ log' = Append(log, UserPostId(page.sends + 1))
              /\ page' = [page EXCEPT !.sends = @ + 1, !.enabled = FALSE, !.timer = TRUE]
         ELSE /\ log' = log
              /\ page' = [page EXCEPT !.sends = @ + 1]
    /\ UNCHANGED <<pc, setup_vars, client_vars, turns, surfaced, loop_obs, send_obs,
                   wire_obs, lib_obs, auth_obs, dl_obs, parsed>>

\* The callback of `setTimeout(() => { pollMessages(); ... }, 1000)`
\* (web_app.py 204-208).
sendTimeout ==
    /\ pc = "web"
    /\ page.timer
    /\ page' = pollMessages([page EXCEPT !.timer = FALSE, !.enabled = TRUE])
    /\ UNCHANGED <<main_vars, wire_obs, lib_obs, auth_obs, dl_obs, parsed>>

\* GET /api/activities (web_app.py 341-382) answers the k-th pollMessages:
\* the activities after the watermark it was sent with and the response's
\* watermark as get_activities returned them, or success false when it raised.
api_activities(k) ==
    /\ pc = "web"
    /\ page.polls[k].stage = "fetch"
    /\ \/ page' = [page EXCEPT !.polls[k].stage = "answered"]
       \/ \E w \in Watermarks(log) :
            page' = [page EXCEPT !.polls[k].stage = "answered",
                                 !.polls[k].success = TRUE,
                                 !.polls[k].activities = ActivitiesAfter(log, page.polls[k].sent),
                                 !.polls[k].watermark = w]
    /\ UNCHANGED <<main_vars, wire_obs, lib_obs, auth_obs, dl_obs, parsed>>

\* The k-th pollMessages resumes with its response (web_app.py 225-237).
pollMessagesResumes(k) ==
    /\ pc = "web"
    /\ page.polls[k].stage = "answered"
    /\ page' = [pollMessagesResume(page, page.polls[k]) EXCEPT !.polls[k].stage = "done"]
    /\ UNCHANGED <<main_vars, wire_obs, lib_obs, auth_obs, dl_obs, parsed>>

\* The page of the web example from its load on: init, any sends the user
\* makes, the polls these start, answered and resumed in any order, while the
\* bot's activities arrive.
InitWeb ==
    InitWith([message |-> FALSE, conversation_id |-> FALSE, no_auth |-> TRUE, debug |-> FALSE],
             "web", NoConversation)

NextWeb ==
    \/ init
    \/ sendMessage
    \/ sendTimeout
    \/ \E k \in DOMAIN page.polls : api_activities(k)
    \/ \E k \in DOMAIN page.polls : pollMessagesResumes(k)
    \/ BackendAppends

SpecWeb == InitWeb /\ [][NextWeb]_vars

\* A program calling the client's methods directly, in any order, with any
\* arguments, against a backend answering with any status and body.
InitClient ==
    /\ InitWith([message |-> FALSE, conversation_id |-> FALSE, no_auth |-> TRUE, debug |-> FALSE],
                "lib", NoConversation)

NextClient ==
    \/ generate_token
    \/ start_conversation
    \/ send_message
    \/ get_activities
    \/ refresh_token
    \/ PollConversation

SpecClient == InitClient /\ [][NextClient]_vars

\* A program parsing conversation objects.
InitModels ==
    InitWith([message |-> FALSE, conversation_id |-> FALSE, no_auth |-> TRUE, debug |-> FALSE],
             "lib", NoConversation)

NextModels ==
    \/ from_dict

SpecModels == InitModels /\ [][NextModels]_vars

\* A program building an EntraIDAuth object with any client_secret and scopes
\* and calling its token methods, in any order, MSAL answering anything.
InitAuth ==
    \E client_secret \in SecretArgs, scopes \in ScopesArgs :
       /\ pc = "lib"
       /\ opts = [message |-> FALSE, conversation_id |-> FALSE, no_auth |-> FALSE, debug |-> FALSE]
       /\ user_token = NoneStr
       /\ conversation = NoConversation
       /\ watermark = None
       /\ seen_activity_ids = {}
       /\ found_responses = FALSE
       /\ poll_count = 0
       /\ turns = 0
       /\ log = <<>>
       /\ probe = NoProbe
       /\ surfaced = [i \in ActIds |-> 0]
       /\ turn_out = {}
       /\ last_send = "none"
       /\ polls_issued = 0
       /\ last_poll = "none"
       /\ scen = 0
       /\ NoWire
       /\ NoLibCall
       /\ auth = EntraIDAuth(client_secret, scopes)
       /\ auth_call = NoAuthCall
       /\ msal_calls = <<>>
       /\ auth_result = NoAuthResult

NextAuth ==
    \/ acquire_token_interactive
    \/ acquire_token_for_client

SpecAuth == InitAuth /\ [][NextAuth]_vars

\* One activity of any shape in the poll loops: the user's message u1 was
\* posted, the probe p arrived after it, and the loop's first polls have failed,
\* so that p is unseen and two polls are left.  In interactive mode the poll
\* behind the send returned u1.
InitProbe ==
    \E m \in BOOLEAN, d \in BOOLEAN, a \in ProbeActivities :
       /\ m => ~d
       /\ pc = IF m THEN "single_poll" ELSE "await"
       /\ opts = [message |-> m, conversation_id |-> FALSE, no_auth |-> FALSE, debug |-> d]
       /\ user_token = NoneStr
       /\ conversation = StartedConversation
       /\ watermark = IF m THEN None ELSE 1
       /\ seen_activity_ids = IF m THEN {} ELSE {"u1"}
       /\ found_responses = FALSE
       /\ poll_count = max_polls - 2
       /\ turns = IF m THEN 0 ELSE 1
       /\ log = <<"u1", "p">>
       /\ probe = a
       /\ surfaced = [i \in ActIds |-> 0]
       /\ turn_out = {}
       /\ last_send = "returned"
       /\ polls_issued = max_polls - 2
       /\ last_poll = "fail"
       /\ scen = -1
       /\ poll_history = "failed"
       /\ poll_error = FALSE
       /\ sent_watermark = watermark
       /\ resp_watermark = None
       /\ slept = FALSE
       /\ resp_batch = <<>>
       /\ NoLibCall
       /\ NoAuthObject

NextProbe ==
    \/ SinglePoll
    \/ AwaitPoll

SpecProbe == InitProbe /\ [][NextProbe]_vars

\* The same, watched on the wire.
NextProbeWire ==
    \/ WireSinglePoll
    \/ WireAwaitPoll

SpecProbeWire == InitProbe /\ [][NextProbeWire]_vars

\* ------------------------------------------------------------- claims
InLoop == pc \in {"single_poll", "await"}

\* C1: in interactive mode, whatever batches the polls of a session return
\* (ids repeated inside a batch or across polls, responses without a
\* watermark), every activity id is printed as a bot response at most once.
C1_InteractiveSurfacesOnce ==
    ~opts.message => \A i \in ActIds : surfaced[i] <= 1

\* a1 was printed once, the stored watermark is still None, and a later poll of
\* the loop came back with nothing new.
C1_Witness ==
    /\ ~opts.message
    /\ surfaced["a1"] = 1
    /\ watermark = None
    /\ polls_issued >= 2
    /\ last_poll = "quiet"

\* C2: in single-message mode every activity id is printed as a bot response at
\* most once over the polls that follow the send.
C2_SingleSurfacesOnce ==
    opts.message => \A i \in ActIds : surfaced[i] <= 1

\* C3: in interactive mode a from-bot message with non-empty text that entered
\* the conversation after a user message was posted is in seen_activity_ids
\* only if it was printed.
C3_NoBotMessageMissed ==
    ~opts.message =>
       \A k \in DOMAIN log :
          LET a == ActivityOf(log[k]) IN
          (/\ \E j \in 1..(k - 1) : log[j] \in UserIds
           /\ a.type = "message" /\ is_from_bot(a) /\ ~EmptyText(a.text)
           /\ a.id \in seen_activity_ids)
          => surfaced[a.id] >= 1

\* C4: no step of a session lowers the stored watermark or resets it to None
\* (None is below every sequence number).
C4_WatermarkMonotone == [][watermark' >= watermark]_vars

\* A watermark is stored, the conversation has grown past it, and the loop's
\* latest poll failed or brought nothing new.
C4_Witness ==
    /\ watermark # None
    /\ watermark < Len(log)
    /\ polls_issued >= 1
    /\ last_poll \in {"fail", "quiet"}

\* C5 as stated: an activity whose from.id is the client's user_id is
\* classified not-from-bot by both loops, whatever its from.role, type, text
\* and attachments.
C5_SelfIdNeverFromBot ==
    probe.from_id = user_id => ~is_from_bot(probe) /\ ~is_bot_message(probe)

\* C5 amended: an activity whose from.id is the client's user_id and whose
\* from.role is not "bot" is classified not-from-bot by both loops, whatever
\* its type, text and attachments.
C5_SelfIdNotFromBotUnlessRole ==
    (probe.from_id = user_id /\ probe.from_role # "bot")
       => ~is_from_bot(probe) /\ ~is_bot_message(probe)

\* An await poll received a text message carrying the client's own id and the
\* role "user", and printed nothing for it.
C5_Witness ==
    /\ probe.from_id = user_id
    /\ probe.from_role = "user"
    /\ probe.type = "message"
    /\ probe.text = "Hello!"
    /\ "p" \in seen_activity_ids
    /\ surfaced["p"] = 0

\* C6: in the interactive await loop an unseen from-bot message whose text is
\* absent, empty or whitespace and that has no attachments is never printed as
\* a response and never sets found_responses, and any poll that receives it
\* adds it to seen_activity_ids.
C6_EmptyBotMessageConsumed ==
    LET st0 == [seen |-> seen_activity_ids, found |-> found_responses,
                new |-> FALSE, printed |-> <<>>]
    IN (/\ ~opts.message
        /\ probe.type = "message"
        /\ is_from_bot(probe)
        /\ probe.text \in {NoText, "", " "}
        /\ probe.attachments = <<>>)
       => /\ surfaced["p"] = 0
          /\ ~found_responses
          /\ \A batch \in Batches(log) :
                "p" \in Range(batch) =>
                   LET st == ProcessBatch(batch, st0, opts.debug)
                   IN "p" \in st.seen /\ "p" \notin Range(st.printed) /\ ~st.found /\ ~st.new

\* An await poll received a whitespace-only bot message: it is seen, nothing
\* was printed and the poll counted as bringing nothing new.
C6_Witness ==
    /\ ~opts.message
    /\ probe.type = "message"
    /\ probe.from_role = "bot"
    /\ probe.text = " "
    /\ probe.attachments = <<>>
    /\ "p" \in seen_activity_ids
    /\ last_poll = "quiet"
    /\ ~found_responses

\* C7: in single-message mode a message with empty or absent text and no
\* attachments is never printed as a bot response, whoever it is from.
C7_SingleEmptyNeverPrinted ==
    (/\ opts.message
     /\ probe.type = "message"
     /\ ~TextTruthy(probe.text)
     /\ probe.attachments = <<>>)
    => surfaced["p"] = 0

\* C8: a poll loop issues at most max_polls polls and then ends: while a loop
\* runs, every step of main issues one more poll (only the backend may act in
\* between), a poll is issued only when fewer than max_polls were, and a loop
\* that goes on after a poll has issued fewer than max_polls.
C8_AtMostMaxPolls ==
    [][/\ polls_issued' <= max_polls
       /\ InLoop => \/ polls_issued < max_polls /\ polls_issued' = polls_issued + 1
                    \/ UNCHANGED <<pc, polls_issued>>
       /\ InLoop' => polls_issued' = poll_count' /\ polls_issued' < max_polls]_vars

\* An interactive turn's loop ended after max_polls polls, the last of them
\* failed, with no response found.
C8_Witness ==
    /\ pc = "prompt"
    /\ polls_issued = max_polls
    /\ last_poll = "fail"
    /\ ~found_responses
    /\ turn_out = {}

\* C9: an interactive await loop that ended before max_polls polls ended at a
\* poll numbered 4 or more that brought nothing new, with a response found; it
\* does not run on after such a poll; and in the scenario (polls 1 and 2
\* nothing new, poll 3 the one bot message "Hello!", poll 4 nothing new) it
\* ends with exactly 4 polls issued and exactly that message printed, once.
C9_EarlyTermination ==
    /\ (pc = "prompt" /\ polls_issued \in 1..(max_polls - 1))
          => last_poll = "quiet" /\ found_responses /\ polls_issued >= 4
    /\ (pc = "await" /\ last_poll = "quiet" /\ found_responses) => polls_issued < 4
    /\ scen = 4 => /\ pc # "await"
                   /\ polls_issued = 4
                   /\ turn_out = {"a1"}
                   /\ surfaced["a1"] = 1

\* The scenario has run to its fourth poll.
C9_Witness == scen = 4 /\ pc = "prompt"

\* C10: every send_message call main makes runs send_message: it posts the
\* activity and returns, or raises the transport's error.
C10_SendPosts == last_send \in {"none", "returned", "HTTPError"}

\* C11: no send_message call issues a request that posts an empty text.
C11_EmptyTextNotPosted ==
    lib_request.op = "send_message" => lib_request.text # ""

\* C12: a client method whose response has a status outside 200-299 ends with
\* the error that carries the status and the body, and returns nothing.
C12_NonSuccessStatusFails ==
    (lib_result.kind # "none" /\ lib_result.status \notin 200..299)
       => lib_result.kind = "HTTPError"

\* C19: main gets past the conversation start only with a session whose
\* conversation_id and token are both non-empty.
C19_NoEmptySession ==
    pc \notin {"auth", "start", "exit1"}
       => conversation.conversation_id # "" /\ conversation.token # ""

\* C20: when authentication was attempted (no --no-auth) and yielded no user
\* token, no conversation is started or continued.
C20_AuthFailureIsFatal ==
    (~opts.no_auth /\ pc # "auth" /\ ~TextTruthy(user_token))
       => conversation = NoConversation

\* The step is a poll of a loop.
IsPoll == InLoop /\ polls_issued' = polls_issued + 1

\* C13: a failed poll changes nothing the client stores and, unless it was the
\* max_polls-th, leaves the loop running; the poll after it is issued with the
\* stored watermark, and prints the bot's message a1 if its batch carries it
\* (unseen, in interactive mode).
C13_FailedPollKeepsLoop ==
    [][/\ (IsPoll /\ last_poll' = "fail")
            => /\ UNCHANGED <<watermark, seen_activity_ids, found_responses, surfaced>>
               /\ polls_issued' < max_polls => pc' = pc /\ poll_count' = poll_count + 1
       /\ (IsPoll /\ last_poll = "fail")
            => /\ sent_watermark' = watermark
               /\ last_poll' = "new" => turn_out' # {}
       /\ (InLoop /\ last_poll = "fail")
            => \A batch \in Batches(log) :
                  ("a1" \in Range(batch) /\ ~AlreadySeen("a1", seen_activity_ids))
                     => "a1" \in Range(IF opts.message
                                       THEN PrintBotMessages(batch)
                                       ELSE ProcessBatch(batch,
                                               [seen |-> seen_activity_ids,
                                                found |-> found_responses,
                                                new |-> FALSE, printed |-> <<>>],
                                               opts.debug).printed)]_vars

\* Poll 1 failed, and a later poll of the loop printed the bot's message a1.
C13_Witness ==
    /\ poll_history = "mixed"
    /\ last_poll = "new"
    /\ polls_issued = 2
    /\ surfaced["a1"] = 1

\* C14: a loop that echoed a poll error is a loop all of whose polls failed.
C14_ErrorOnlyWhenAllFailed ==
    poll_error => poll_history = "failed"

\* C16: every poll is issued with the stored watermark, and a poll that
\* succeeded leaves the stored watermark equal to the response's watermark if
\* the response has one, and as it was if it has none.
C16_WatermarkFollowsResponse ==
    [][IsPoll => /\ sent_watermark' = watermark
                 /\ last_poll' # "fail"
                      => watermark' = IF resp_watermark' # None THEN resp_watermark'
                                      ELSE watermark]_vars

\* An await poll that brought nothing new moved the stored watermark to the
\* response's.
C16_Witness ==
    /\ ~opts.message
    /\ last_poll = "quiet"
    /\ resp_watermark # None
    /\ watermark = resp_watermark
    /\ sent_watermark # watermark

\* C15: an activity that was in the conversation before the session's first
\* user message is never printed as a bot response.
C15_StaleNeverSurfaced ==
    \A k \in DOMAIN log :
       (\A j \in 1..k : log[j] \notin UserIds) => surfaced[log[k]] = 0

\* C17: the interactive loop takes an activity to be from the bot exactly when
\* from.role is "bot", or from.id is present and not the client's user_id, or
\* from.id is absent -- whatever its type, text and attachments; a text message
\* a poll has received has been printed exactly when it is so.
C17_FromBotRule ==
    LET claimed == \/ probe.from_role = "bot"
                   \/ probe.from_id \notin {"", user_id}
                   \/ probe.from_id = ""
    IN /\ is_from_bot(probe) <=> claimed
       /\ (/\ ~opts.message
           /\ "p" \in seen_activity_ids
           /\ probe.type = "message"
           /\ probe.text = "Hello!")
          => (surfaced["p"] = 1 <=> claimed)

\* An await poll printed a text message that has neither from.id nor
\* from.role.
C17_Witness ==
    /\ ~opts.message
    /\ probe.from_id = ""
    /\ probe.from_role = ""
    /\ probe.type = "message"
    /\ probe.text = "Hello!"
    /\ "p" \in seen_activity_ids
    /\ surfaced["p"] = 1

Blank(t) == t \in {NoText, "", " "}

\* C18 as stated: an activity an await poll has received has been printed
\* exactly when it is from the bot and is a message with non-empty text or an
\* attachment, or an invoke or event with non-empty text.
C18_SurfacedRule ==
    (~opts.message /\ "p" \in seen_activity_ids)
       => (surfaced["p"] >= 1
             <=> /\ is_from_bot(probe)
                 /\ \/ /\ probe.type = "message"
                       /\ TextTruthy(probe.text) \/ Len(probe.attachments) >= 1
                    \/ /\ probe.type \in {"invoke", "event"}
                       /\ TextTruthy(probe.text))

\* C18 amended: ... a message whose text is not blank (absent, empty or
\* whitespace only) or that has an attachment, or an invoke or event with
\* non-empty text, or -- in debug mode -- an activity of any type but message
\* that carries a sign-in or OAuth attachment.
C18_SurfacedRuleWithCards ==
    (~opts.message /\ "p" \in seen_activity_ids)
       => (surfaced["p"] >= 1
             <=> /\ is_from_bot(probe)
                 /\ \/ /\ probe.type = "message"
                       /\ ~Blank(probe.text) \/ Len(probe.attachments) >= 1
                    \/ /\ probe.type \in {"invoke", "event"}
                       /\ TextTruthy(probe.text)
                    \/ /\ probe.type # "message"
                       /\ opts.debug
                       /\ \E k \in DOMAIN probe.attachments :
                             probe.attachments[k] \in {"signin", "oauth"})

\* In debug mode an await poll printed the sign-in card of a bot event that has
\* no text.
C18_Witness ==
    /\ ~opts.message
    /\ opts.debug
    /\ probe.type = "event"
    /\ probe.from_role = "bot"
    /\ probe.text = NoText
    /\ probe.attachments = <<"signin">>
    /\ "p" \in seen_activity_ids
    /\ surfaced["p"] = 1

\* C21 as stated: the first poll of the single-message loop is issued with no
\* sleep before it, and every poll of an interactive await loop, the first
\* included, is preceded by a sleep.
C21_SleepBeforePoll ==
    [][IsPoll => /\ (opts.message /\ polls_issued = 0) => ~slept'
                 /\ ~opts.message => slept']_vars

\* C21 amended: every poll of the single-message loop, the first included, is
\* preceded by a sleep, and in an interactive await loop the first poll is
\* issued with no sleep before it and every later poll is preceded by one.
C21_SleepBeforePollAsCoded ==
    [][IsPoll => /\ opts.message => slept'
                 /\ ~opts.message => (slept' <=> polls_issued > 0)]_vars

\* The second poll of an interactive await loop has been issued, after a sleep.
C21_Witness ==
    /\ ~opts.message
    /\ polls_issued = 2
    /\ slept

\* The provider's reserved identity scopes.
ReservedScopes == {"openid", "profile", "offline_access"}

MsalOps == [k \in DOMAIN msal_calls |-> msal_calls[k].op]
Launches == Cardinality({k \in DOMAIN msal_calls :
                           msal_calls[k].op = "acquire_token_interactive"})

\* C22: acquire_token_interactive given a cached account calls
\* acquire_token_silent first and, if that answers with an access token, returns
\* the answer without launching the interactive flow; with no account, or when
\* the silent call answers without a token, it launches the interactive flow
\* exactly once, and raises if that flow's answer carries an error.
C22_SilentThenInteractive ==
    auth_call.op = "acquire_token_interactive" =>
       LET given  == auth_call.account = Dict({"username"})
           silent == /\ ~auth_call.silent.is_none
                     /\ "access_token" \in auth_call.silent.keys
       IN /\ given => MsalOps[1] = "acquire_token_silent"
          /\ (given /\ silent)
                => /\ Launches = 0
                   /\ auth_result = Returned(auth_call.silent)
          /\ (~given \/ ~silent)
                => /\ Launches = 1
                   /\ MsalOps[Len(MsalOps)] = "acquire_token_interactive"
                   /\ "error" \in auth_call.answer.keys => auth_result.kind = "Exception"
                   /\ "error" \notin auth_call.answer.keys
                         => auth_result = Returned(auth_call.answer)
          /\ ~given => Len(MsalOps) = 1

\* Given a cached account, the silent call answered with an error and no token,
\* the interactive flow was launched and its answer was returned.
C22_Witness ==
    /\ auth_call.op = "acquire_token_interactive"
    /\ auth_call.account = Dict({"username"})
    /\ auth_call.silent = Dict({"error"})
    /\ MsalOps = <<"acquire_token_silent", "acquire_token_interactive">>
    /\ auth_result = Returned(Dict({"access_token"}))

\* C23: no call of the interactive flow (the silent attempt included) hands
\* MSAL a scope list that holds a reserved identity scope; a request configured
\* with one is rejected.
C23_ReservedScopesRejected ==
    auth_call.op = "acquire_token_interactive" =>
       /\ \A k \in DOMAIN msal_calls :
             \A j \in DOMAIN msal_calls[k].scopes :
                msal_calls[k].scopes[j] \notin ReservedScopes
       /\ (\E j \in DOMAIN auth.scopes : auth.scopes[j] \in ReservedScopes)
             => auth_result.kind \notin {"returned", "none"}

\* C24: with no client secret configured acquire_token_for_client raises the
\* configuration error and makes no MSAL call; with one configured, an answer
\* that carries an error makes it raise, and it returns no token.
C24_ClientCredentials ==
    auth_call.op = "acquire_token_for_client" =>
       /\ auth.client_secret \in {NoneStr, ""}
             => /\ auth_result.kind = "ValueError"
                /\ msal_calls = <<>>
       /\ auth.client_secret \notin {NoneStr, ""}
             => /\ Len(msal_calls) = 1
                /\ "error" \in auth_call.answer.keys
                      => auth_result.kind = "Exception" /\ auth_result.value = NoneDict

\* With a secret configured, MSAL answered with an error and its description,
\* and the call raised with the description.
C24_Witness ==
    /\ auth_call.op = "acquire_token_for_client"
    /\ auth.client_secret = "s3cret"
    /\ auth_call.answer = Dict({"error", "error_description"})
    /\ auth_result = Raised("Exception", "error_description")

\* C25: start_conversation given a user token sends that token as the bearer
\* of its request, and the client's secret when given none; the client's stored
\* secret stays what it was, and any call made without a token carries the
\* secret.
C25_StartAuthorization ==
    /\ lib_request.op = "start_conversation"
          => lib_request.auth = IF lib_request.token \in {"t1"}
                                THEN lib_request.token ELSE secret
    /\ client.secret = secret
    /\ (lib_request.op # "none" /\ lib_request.token = NoneStr)
          => lib_request.auth = secret

\* start_conversation was called with the user token t1 and sent it as the
\* bearer; the stored secret is unchanged.
C25_Witness ==
    /\ lib_request.op = "start_conversation"
    /\ lib_request.token = "t1"
    /\ lib_request.auth = "t1"
    /\ lib_result.kind = "returned"
    /\ client.secret = secret

\* C27: no step changes the client object; a step leaves the watermark and
\* seen set of every conversation but the one its request names as they were,
\* and a poll that changes those of a conversation was issued for that
\* conversation with its own stored watermark and adds to its seen set only
\* ids of the batch it returned.
C27_ConversationsIsolated ==
    [][/\ client' = client
       /\ \A c \in Convs :
             /\ lib_request'.conversation_id # c => sessions'[c] = sessions[c]
             /\ sessions'[c] # sessions[c]
                   => /\ lib_request'.op = "get_activities"
                      /\ lib_request'.watermark = sessions[c].watermark
                      /\ lib_result'.kind = "returned"
                      /\ sessions'[c].seen \subseteq
                            sessions[c].seen \cup Range(lib_result'.value.activities)
                      /\ sessions'[c].watermark
                            \in {sessions[c].watermark, lib_result'.value.watermark}]_vars

\* Both conversations have been polled: c1 has seen a1 and stores watermark 1,
\* c2 was polled after it and has seen nothing.
C27_Witness ==
    /\ sessions["c1"] = [watermark |-> 1, seen |-> {"a1"}]
    /\ sessions["c2"] = NewSession
    /\ lib_request.op = "get_activities"
    /\ lib_request.conversation_id = "c2"
    /\ lib_result.kind = "returned"

\* The Conversation values, and the wire mappings of one: the object
\* {conversationId, token, expires_in, streamUrl}, an absent stream_url being
\* null or left out.
Conversations ==
    [conversation_id : {"", "c1", "c2"}, token : {"", "t1"},
     expires_in : {0, 1800, 3600}, stream_url : {NoneStr, "", "wss://s"}]
WireMappings(c) ==
    LET full == [conversationId |-> c.conversation_id, token |-> c.token,
                 expires_in |-> c.expires_in, streamUrl |-> c.stream_url]
    IN {full} \cup (IF c.stream_url = NoneStr
                    THEN {[k \in ConversationKeys \ {"streamUrl"} |-> full[k]]}
                    ELSE {})

\* C26: Conversation.from_dict applied to a wire mapping of a Conversation
\* yields that Conversation, field by field.
C26_ConversationRoundTrip ==
    \A c \in Conversations :
       parsed.data \in WireMappings(c)
          => /\ parsed.conversation.conversation_id = c.conversation_id
             /\ parsed.conversation.token = c.token
             /\ parsed.conversation.expires_in = c.expires_in
             /\ parsed.conversation.stream_url = c.stream_url

\* The wire mapping of a Conversation without stream_url, the key left out, was
\* parsed.
C26_Witness ==
    /\ DOMAIN parsed.data = ConversationKeys \ {"streamUrl"}
    /\ parsed.data.conversationId = "c1"
    /\ parsed.data.expires_in = 1800
    /\ parsed.conversation.stream_url = NoneStr
    /\ parsed.data \in WireMappings(parsed.conversation)

\* C28: a poll of an interactive await loop that succeeded leaves every
\* activity id of the batch it returned in seen_activity_ids.
C28_BatchIsSeen ==
    [][(IsPoll /\ ~opts.message /\ last_poll' # "fail")
          => Range(resp_batch') \subseteq seen_activity_ids']_vars

\* An await poll returned the user's message and a typing activity that has
\* the client's own id; both are seen and nothing was printed.
C28_Witness ==
    /\ ~opts.message
    /\ resp_batch = <<"u1", "p">>
    /\ probe.type = "typing"
    /\ probe.from_id = user_id
    /\ probe.from_role = "user"
    /\ {"u1", "p"} \subseteq seen_activity_ids
    /\ turn_out = {}

\* C29: an interactive await loop does not end before max_polls polls at a
\* poll whose batch held an activity id that was not in seen_activity_ids.
C29_NoEarlyStopOnNewIds ==
    [][(IsPoll /\ ~opts.message /\ pc' # "await" /\ polls_issued' < max_polls)
          => Range(resp_batch') \subseteq seen_activity_ids]_vars

\* C30: the single-message loop goes on after a poll only if fewer than 4
\* polls were issued, or nothing was printed yet, or the poll printed something;
\* and it ends before max_polls polls only at a poll numbered 4 or more that
\* printed nothing, with a response printed earlier.
C30_SingleEarlyTermination ==
    /\ (opts.message /\ pc = "single_poll" /\ last_poll = "quiet" /\ turn_out # {})
          => polls_issued < 4
    /\ (opts.message /\ pc = "done" /\ polls_issued \in 1..(max_polls - 1))
          => last_poll = "quiet" /\ turn_out # {} /\ polls_issued >= 4

\* C31: in interactive mode a send that fails leads straight back to the
\* prompt with watermark, seen_activity_ids and the conversation as they were
\* and no poll issued; the poll behind a send is issued only when the send
\* returned, and a send is made only for a line newly entered at the prompt.
C31_FailedSendSkipsTurn ==
    [][/\ (pc = "send" /\ pc' # "send" /\ last_send' # "returned")
            => /\ pc' = "prompt"
               /\ UNCHANGED <<watermark, seen_activity_ids, found_responses, log,
                              surfaced, polls_issued, turns>>
       /\ (pc' = "sync" /\ pc # "sync") => pc = "send" /\ last_send' = "returned"
       /\ (pc' = "await" /\ pc # "await") => pc = "sync"
       /\ (pc' = "send" /\ pc # "send") => pc = "prompt" /\ turns' = turns + 1]_vars

\* The seed poll returned the greeting a1 with watermark 1, the user's first
\* send was rejected by the backend, and main is back at the prompt with both
\* unchanged and nothing posted.
C31_Witness ==
    /\ pc = "prompt"
    /\ turns = 1
    /\ last_send = "HTTPError"
    /\ watermark = 1
    /\ seen_activity_ids = {"a1"}
    /\ log = <<"a1">>
    /\ polls_issued = 0

\* C32: a poll that fails inside the await loop leaves the stored watermark,
\* seen_activity_ids, found_responses, the conversation and what was printed
\* as they were; it uses up one iteration of the max_polls the loop has, and
\* the loop is left after it only when that was the last one.
C32_FailedAwaitPollFrame ==
    [][(pc = "await" /\ IsPoll /\ last_poll' = "fail")
          => /\ UNCHANGED <<watermark, seen_activity_ids, found_responses,
                            surfaced, turn_out, log, conversation>>
             /\ max_polls - polls_issued' = (max_polls - polls_issued) - 1
             /\ IF polls_issued' = max_polls
                THEN pc' = "prompt"
                ELSE pc' = "await" /\ poll_count' = poll_count + 1]_vars

\* The second poll of an await loop failed after the first had printed a bot
\* message and moved the watermark: both are still in place.
C32_Witness ==
    /\ pc = "await"
    /\ ~opts.message
    /\ last_poll = "fail"
    /\ polls_issued = 2
    /\ found_responses
    /\ watermark = 1
    /\ seen_activity_ids # {}
    /\ turn_out # {}

\* C33: in interactive mode found_responses is true exactly when the turn has
\* printed at least one activity to the user, in debug and non-debug mode.
C33_FoundIffSurfaced ==
    ~opts.message => (found_responses <=> turn_out # {})

\* C34: the activity posted by send_message carries from.id equal to the
\* client's user_id, so that the same activity, returned by the backend with
\* the from field as posted, is not classified as from the bot.
C34_PostCarriesUserId ==
    (lib_request.op = "send_message" /\ lib_result.kind = "returned")
       => /\ lib_request.from_id = client.user_id
          /\ ~is_from_bot(MkActivity("u1", "message", lib_request.from_id, "",
                                     lib_request.text, <<>>))

\* C35: in the web example, however the pollMessages invocations overlap, no
\* activity is displayed more than once, and the page's watermark, once set, is
\* never replaced by null or by an older watermark.
C35_PageShowsOnceAndAdvances ==
    [][/\ \A i \in ActIds : page'.shown[i] <= 1
       /\ page.watermark # None
            => page'.watermark # None /\ page'.watermark >= page.watermark]_vars

====
